---------------------------- MODULE Spec2Model ----------------------------
(***************************************************************************)
(* regex_generate: a Generator walks a parsed regular-expression tree      *)
(* (regex_syntax Hir) and writes a random sequence of bytes to a sink.     *)
(*                                                                         *)
(* The module models                                                       *)
(*   - sample_from_ranges (the interval sampler), as SampleSpec;           *)
(*   - Generator::generate / generate_from_hir (the tree walk), as a       *)
(*     machine with an explicit call stack, one action per match arm;      *)
(*   - the sink (io::Write) and the pattern matcher the tests check the    *)
(*     output with.                                                        *)
(***************************************************************************)
EXTENDS Integers, Sequences, FiniteSets, TLC

VARIABLES
    hir,             \* Generator.hir: the parsed pattern tree
    max_repeat,      \* Generator.max_repeat
    overflow_checks, \* the build: TRUE when integer overflow panics (debug), FALSE when it wraps
    stack,           \* call stack of generate_from_hir: frames [hir, pc, i, count]
    status,          \* "idle" | "running" | "ok" | "err" | "panic" | "off"
    buffer,          \* the bytes the sink has accepted, in order
    offered,         \* the bytes handed to buffer.write, in order
    sinkFree,        \* bytes the sink still has room for (-1: unlimited, a Vec)
    sinkFuse,        \* writes the sink still accepts before it fails (-1: never fails)
    sinkFailed,      \* some write returned Err
    lastChar,        \* std::char::from_u32(val) of the latest Class::Unicode draw
    countDraws,      \* draws of rng.sample(Uniform::new_inclusive(..)) for a repetition count
    ranges,          \* sample_from_ranges: the ranges argument
    bits,            \* sample_from_ranges: width of I::Item (8: u8, 32: u32)
    spc,             \* sample_from_ranges: "start" | "done" | "panic" | "off"
    sindex,          \* sample_from_ranges: normalized_index, or the chosen range (biased), or -1
    sresult          \* sample_from_ranges: the value returned, or -1

gvars == <<hir, max_repeat, stack, status, buffer, offered, sinkFree, sinkFuse,
           sinkFailed, lastChar, countDraws>>
svars == <<ranges, bits, spc, sindex, sresult>>
vars == <<hir, max_repeat, overflow_checks, stack, status, buffer, offered, sinkFree,
          sinkFuse, sinkFailed, lastChar, countDraws, ranges, bits, spc, sindex, sresult>>

(***************************************************************************)
(* Bounds of the model.                                                    *)
(***************************************************************************)
\* max_repeat ranges over 0..MaxM
MaxM == 3
\* The u32 of max_repeat and of the repetition counts is kept at a reduced
\* width of CountBits bits: every operand of the model is below
\* 2^CountBits, and `max_repeat - 1` wraps to 2^CountBits - 1 as it wraps to
\* 2^32 - 1 in the program.
CountBits == 3
\* a slice-like sink has room for 0..MaxCap bytes
MaxCap == 2
\* a failing sink accepts 0..MaxFuse writes before it returns Err
MaxFuse == 1
\* explicit minimum / maximum of a Range quantifier: 0..MaxQuant
MaxQuant == 4

(***************************************************************************)
(* Program constants.                                                      *)
(***************************************************************************)
SAMPLE_UNBIASED_LIMIT == 2
U8Modulus == 256
CharMax == 1114111         \* 0x10FFFF, char::MAX
SurrogateFirst == 55296    \* 0xD800
SurrogateLast == 57343     \* 0xDFFF
None == -1                 \* Option::None of std::char::from_u32
Panic == -2                \* the call unwound with a panic instead of returning a value
NoDraw == -3               \* lastChar before the first Class::Unicode draw

Min(a, b) == IF a < b THEN a ELSE b

RECURSIVE Pow2(_)
Pow2(n) == IF n = 0 THEN 1 ELSE 2 * Pow2(n - 1)

U32Modulus == Pow2(CountBits)

(***************************************************************************)
(* sample_from_ranges                                                      *)
(***************************************************************************)
\* I::Item arithmetic: a u8 wraps at 256. A u32 item holds code points, whose
\* sums stay below 2 * 0x110000 < 2^32: no u32 item operation of the sampler overflows.
Overflows(x, w) == w = 8 /\ x >= U8Modulus
Wrap(x, w) == IF w = 8 THEN x % U8Modulus ELSE x

\* One iteration of `for (i, r) in ranges.iter().enumerate()`
NormStep(acc, r, w, checks) ==
    LET width == (r[2] - r[1]) + 1
        widthW == Wrap(width, w)
        total == acc.len + widthW
    IN  IF acc.panic THEN acc
        ELSE IF checks /\ (Overflows(width, w) \/ Overflows(total, w))
             THEN [acc EXCEPT !.panic = TRUE]
             ELSE [panic |-> FALSE,
                   table |-> Append(acc.table, <<acc.len, r[1]>>),
                   len |-> Wrap(total, w)]

RECURSIVE Normalize(_, _, _, _)
\* normalized_ranges and normalized_len after the first k ranges
Normalize(rs, k, w, checks) ==
    IF k = 0 THEN [panic |-> FALSE, table |-> <<>>, len |-> 0]
    ELSE NormStep(Normalize(rs, k - 1, w, checks), rs[k], w, checks)

\* binary_search_by(|&(ns, _)| ns.cmp(&normalized_index)).unwrap_or_else(|i| i - 1),
\* as a 1-based index; 0 when `i - 1` underflows.
RangeIndex(table, idx) ==
    IF \E k \in 1..Len(table) : table[k][1] = idx
    THEN CHOOSE k \in 1..Len(table) : table[k][1] = idx
    ELSE Cardinality({k \in 1..Len(table) : table[k][1] < idx})

\* normalized_index - normalized_start + start
UnbiasedValue(table, idx, w) ==
    LET ri == RangeIndex(table, idx)
    IN  IF ri = 0 THEN Panic
        ELSE Wrap((idx - table[ri][1]) + table[ri][2], w)

\* The values the biased branch can return: one range, then one value of it
BiasedValues(rs) == UNION {rs[k][1]..rs[k][2] : k \in 1..Len(rs)}

\* Every outcome of sample_from_ranges(ranges, rng): a value, or Panic
SampleOutcomes(rs, w, checks) ==
    IF Len(rs) <= SAMPLE_UNBIASED_LIMIT
    THEN UNION {IF norm.panic \/ norm.len = 0
                THEN {Panic}
                ELSE {UnbiasedValue(norm.table, idx, w) : idx \in 0..(norm.len - 1)} :
                   norm \in {Normalize(rs, Len(rs), w, checks)}}
    ELSE BiasedValues(rs)

(***************************************************************************)
(* The sampler called on its own: SampleInit draws the ranges, and         *)
(* SampleUnbiased / SampleBiased are one call of sample_from_ranges.       *)
(***************************************************************************)
BytePoints == {0, 1, 127, 254, 255}
CodePoints == {55294, 55295, 57344, 57345}

PointRanges(P) == {<<a, b>> \in P \X P : a <= b}

\* ordered, disjoint, non-empty lists of at most 3 ranges
RangeLists(P) ==
    LET R == PointRanges(P)
    IN  {<<r>> : r \in R}
        \cup {<<r1, r2>> : <<r1, r2>> \in {p \in R \X R : p[1][2] < p[2][1]}}
        \cup {<<q[1], q[2], q[3]>> :
                q \in {p \in R \X R \X R : p[1][2] < p[2][1] /\ p[2][2] < p[3][1]}}

GenIdle ==
    /\ hir = <<>> /\ max_repeat = 0 /\ stack = <<>> /\ status = "off"
    /\ buffer = <<>> /\ offered = <<>> /\ sinkFree = -1 /\ sinkFuse = -1
    /\ sinkFailed = FALSE /\ lastChar = NoDraw /\ countDraws = 0

SampleInit ==
    /\ GenIdle
    /\ overflow_checks \in BOOLEAN
    /\ \/ bits = 8 /\ ranges \in RangeLists(BytePoints)
       \/ bits = 32 /\ ranges \in RangeLists(CodePoints)
    /\ spc = "start" /\ sindex = -1 /\ sresult = -1

\* sample_from_ranges, the unbiased branch
SampleUnbiased ==
    /\ spc = "start"
    /\ Len(ranges) <= SAMPLE_UNBIASED_LIMIT
    /\ LET norm == Normalize(ranges, Len(ranges), bits, overflow_checks)
       IN  IF norm.panic \/ norm.len = 0
           THEN spc' = "panic" /\ UNCHANGED <<sindex, sresult>>
           ELSE \E idx \in 0..(norm.len - 1) :
                   LET v == UnbiasedValue(norm.table, idx, bits)
                   IN  /\ sindex' = idx
                       /\ sresult' = v
                       /\ spc' = IF v = Panic THEN "panic" ELSE "done"
    /\ UNCHANGED <<ranges, bits, overflow_checks>>
    /\ UNCHANGED gvars

\* sample_from_ranges, the biased branch
SampleBiased ==
    /\ spc = "start"
    /\ Len(ranges) > SAMPLE_UNBIASED_LIMIT
    /\ \E k \in 1..Len(ranges) :
          \E v \in ranges[k][1]..ranges[k][2] :
             /\ sindex' = k
             /\ sresult' = v
             /\ spc' = "done"
    /\ UNCHANGED <<ranges, bits, overflow_checks>>
    /\ UNCHANGED gvars

SampleNext == SampleUnbiased \/ SampleBiased

SampleSpec == SampleInit /\ [][SampleNext]_vars


(***************************************************************************)
(* The pattern tree (regex_syntax::hir::Hir). Every node is a record of    *)
(* one shape: kind, sub (the anchor, word-boundary or repetition kind),    *)
(* m and n (a literal's value, a quantifier's operands), greedy, ranges    *)
(* (a class) and hirs (the children).                                      *)
(***************************************************************************)
Mk(kind, sub, m, n, greedy, rs, hs) ==
    [kind |-> kind, sub |-> sub, m |-> m, n |-> n, greedy |-> greedy,
     ranges |-> rs, hirs |-> hs]

Empty == Mk("Empty", "", 0, 0, FALSE, <<>>, <<>>)
Anchor(a) == Mk("Anchor", a, 0, 0, FALSE, <<>>, <<>>)
WordBoundary(wb) == Mk("WordBoundary", wb, 0, 0, FALSE, <<>>, <<>>)
LiteralUnicode(c) == Mk("LiteralUnicode", "", c, 0, FALSE, <<>>, <<>>)
LiteralByte(b) == Mk("LiteralByte", "", b, 0, FALSE, <<>>, <<>>)
ClassUnicode(rs) == Mk("ClassUnicode", "", 0, 0, FALSE, rs, <<>>)
ClassBytes(rs) == Mk("ClassBytes", "", 0, 0, FALSE, rs, <<>>)
Repetition(rk, m, n, greedy, h) == Mk("Repetition", rk, m, n, greedy, <<>>, <<h>>)
Group(h) == Mk("Group", "", 0, 0, FALSE, <<>>, <<h>>)
Concat(hs) == Mk("Concat", "", 0, 0, FALSE, <<>>, hs)
Alternation(hs) == Mk("Alternation", "", 0, 0, FALSE, <<>>, hs)

(***************************************************************************)
(* Characters and bytes                                                    *)
(***************************************************************************)
\* std::char::from_u32: Some(c) for a Unicode scalar value, None otherwise
CharFromU32NoSurrogateCheck(val) == IF val <= CharMax THEN val ELSE None
CharFromU32Never(val) == None
CharFromU32(val) ==
    IF val > CharMax \/ (val >= SurrogateFirst /\ val <= SurrogateLast)
    THEN None
    ELSE val

\* char::encode_utf8: the 1 to 4 bytes of c
EncodeUtf8(c) ==
    IF c < 128 THEN <<c>>
    ELSE IF c < 2048 THEN <<192 + (c \div 64), 128 + (c % 64)>>
    ELSE IF c < 65536
         THEN <<224 + (c \div 4096), 128 + ((c \div 64) % 64), 128 + (c % 64)>>
         ELSE <<240 + (c \div 262144), 128 + ((c \div 4096) % 64),
                128 + ((c \div 64) % 64), 128 + (c % 64)>>

(***************************************************************************)
(* The sink: buffer.write(bytes). A Vec accepts everything; a slice        *)
(* accepts what it has room for and returns Ok(n) with n < len (a short    *)
(* write); a failing sink returns Err once its fuse is used up.            *)
(***************************************************************************)
WriteFails == sinkFuse = 0
WriteResult == IF WriteFails THEN "err" ELSE "ok"

Accepted(bytes) ==
    IF WriteFails THEN <<>>
    ELSE IF sinkFree = -1 THEN bytes
    ELSE SubSeq(bytes, 1, Min(Len(bytes), sinkFree))

SinkWrite(bytes) ==
    /\ offered' = offered \o bytes
    /\ buffer' = buffer \o Accepted(bytes)
    /\ sinkFree' = IF sinkFree = -1 THEN -1 ELSE sinkFree - Len(Accepted(bytes))
    /\ sinkFuse' = IF sinkFuse > 0 THEN sinkFuse - 1 ELSE sinkFuse
    /\ sinkFailed' = (sinkFailed \/ WriteFails)

NoWrite == UNCHANGED <<offered, buffer, sinkFree, sinkFuse, sinkFailed>>

(***************************************************************************)
(* generate_from_hir as a machine: the top frame of `stack` is the call    *)
(* that runs. Group and Alternation return their child's result as it is   *)
(* (a tail call: the child's frame replaces theirs); the frames below the  *)
(* top are the loops of Concat and Repetition, which `.expect("Fail")` the *)
(* child's result.                                                         *)
(***************************************************************************)
Frame(h) == [hir |-> h, pc |-> "enter", i |-> 0, count |-> 0]
Top == stack[Len(stack)]
Pop == SubSeq(stack, 1, Len(stack) - 1)
Running(kind) ==
    /\ status = "running"
    /\ stack # <<>>
    /\ Top.hir.kind = kind

\* The call on top returns res ("ok" | "err") to the frame below, or to the
\* caller of generate
Return(res) ==
    IF Pop = <<>>
    THEN stack' = <<>> /\ status' = res
    ELSE IF res = "err"
         THEN stack' = <<>> /\ status' = "panic"    \* .expect("Fail")
         ELSE stack' = Pop /\ status' = "running"

Unwind == stack' = <<>> /\ status' = "panic"

Config == <<hir, max_repeat, overflow_checks>>

\* Generator::generate
Generate ==
    /\ status = "idle"
    /\ status' = "running"
    /\ stack' = <<Frame(hir)>>
    /\ NoWrite
    /\ UNCHANGED <<Config, lastChar, countDraws, svars>>

\* HirKind::Anchor(hir::Anchor::EndLine)
AnchorEndLine ==
    /\ Running("Anchor")
    /\ Top.hir.sub = "EndLine"
    /\ SinkWrite(<<10>>)
    /\ Return(WriteResult)
    /\ UNCHANGED <<Config, lastChar, countDraws, svars>>

\* HirKind::Empty | HirKind::Anchor(_) | HirKind::WordBoundary(_)
EmptyAnchorWordBoundary ==
    /\ status = "running"
    /\ stack # <<>>
    /\ Top.hir.kind \in {"Empty", "Anchor", "WordBoundary"}
    /\ ~(Top.hir.kind = "Anchor" /\ Top.hir.sub = "EndLine")
    /\ NoWrite
    /\ Return("ok")
    /\ UNCHANGED <<Config, lastChar, countDraws, svars>>

\* HirKind::Literal(hir::Literal::Unicode(c)): write_char(c, buffer)
LiteralUnicodeArm ==
    /\ Running("LiteralUnicode")
    /\ SinkWrite(EncodeUtf8(Top.hir.m))
    /\ Return(WriteResult)
    /\ UNCHANGED <<Config, lastChar, countDraws, svars>>

\* HirKind::Literal(hir::Literal::Byte(b))
LiteralByteArm ==
    /\ Running("LiteralByte")
    /\ SinkWrite(<<Top.hir.m>>)
    /\ Return(WriteResult)
    /\ UNCHANGED <<Config, lastChar, countDraws, svars>>

\* `let val = sample_from_ranges(class.ranges(), rng); std::char::from_u32(val)`:
\* every Option<char> the draw can come to
DrawnChars(rs, checks) ==
    {CharFromU32(val) : val \in SampleOutcomes(rs, 32, checks) \ {Panic}}

\* HirKind::Class(hir::Class::Unicode(ref class)): an iteration of the loop
\* that draws a scalar value and returns write_char's result
ClassUnicodeWrite ==
    /\ Running("ClassUnicode")
    /\ \E c \in DrawnChars(Top.hir.ranges, overflow_checks) :
          /\ c # None
          /\ lastChar' = c
          /\ SinkWrite(EncodeUtf8(c))
          /\ Return(WriteResult)
    /\ UNCHANGED <<Config, countDraws, svars>>

\* HirKind::Class(hir::Class::Unicode(ref class)): an iteration of the loop
\* whose draw is no scalar value (the loop goes round), or a panic of the sampler
ClassUnicodeResample ==
    /\ Running("ClassUnicode")
    /\ IF Panic \in SampleOutcomes(Top.hir.ranges, 32, overflow_checks)
       THEN Unwind /\ UNCHANGED lastChar
       ELSE /\ None \in DrawnChars(Top.hir.ranges, overflow_checks)
            /\ lastChar' = None
            /\ UNCHANGED <<stack, status>>
    /\ NoWrite
    /\ UNCHANGED <<Config, countDraws, svars>>

\* HirKind::Class(hir::Class::Bytes(ref class))
ClassBytesArm ==
    /\ Running("ClassBytes")
    /\ \E val \in SampleOutcomes(Top.hir.ranges, 8, overflow_checks) :
          IF val = Panic
          THEN Unwind /\ NoWrite
          ELSE SinkWrite(<<val>>) /\ Return(WriteResult)
    /\ UNCHANGED <<Config, lastChar, countDraws, svars>>

\* `let limit = max_repeat - 1;` in u32: Panic when the build checks overflow,
\* the wrapped value when it does not
Limit(M, checks) ==
    IF M >= 1 THEN M - 1
    ELSE IF checks THEN Panic ELSE (M - 1) + U32Modulus

\* `let range = match repetition.kind { .. }`
QuantRange(rep, limit) ==
    CASE rep.sub = "ZeroOrOne" -> <<0, 1>>
      [] rep.sub = "ZeroOrMore" -> <<0, limit>>
      [] rep.sub = "OneOrMore" -> <<1, limit>>
      [] rep.sub = "Exactly" -> <<rep.m, rep.m>>
      [] rep.sub = "AtLeast" -> <<rep.m, limit>>
      [] rep.sub = "Bounded" -> <<rep.m, rep.n>>

\* rng.sample(Uniform::new_inclusive(low, high)): new_inclusive asserts low <= high
UniformInclusive(low, high) == IF low > high THEN {Panic} ELSE low..high

\* `let count = if repetition.greedy { .. } else { range.0 }`: every outcome,
\* a count or Panic
RepetitionCounts(rep, M, checks) ==
    LET limit == Limit(M, checks)
    IN  IF limit = Panic THEN {Panic}
        ELSE LET range == QuantRange(rep, limit)
             IN  IF rep.greedy
                 THEN UniformInclusive(range[1], range[2])
                 ELSE {range[1]}

\* HirKind::Repetition(ref repetition): up to the `for` loop
RepetitionEnter ==
    /\ Running("Repetition")
    /\ Top.pc = "enter"
    /\ \E c \in RepetitionCounts(Top.hir, max_repeat, overflow_checks) :
          IF c = Panic
          THEN Unwind /\ UNCHANGED countDraws
          ELSE /\ stack' = Append(Pop, [Top EXCEPT !.pc = "loop", !.i = 0, !.count = c])
               /\ countDraws' = IF Top.hir.greedy THEN countDraws + 1 ELSE countDraws
               /\ UNCHANGED status
    /\ NoWrite
    /\ UNCHANGED <<Config, lastChar, svars>>

\* `for _ in 0..count { generate_from_hir(.., &repetition.hir, ..).expect("Fail"); } Ok(())`
RepetitionLoop ==
    /\ Running("Repetition")
    /\ Top.pc = "loop"
    /\ IF Top.i < Top.count
       THEN /\ stack' = Append(Append(Pop, [Top EXCEPT !.i = Top.i + 1]),
                               Frame(Top.hir.hirs[1]))
            /\ UNCHANGED status
       ELSE Return("ok")
    /\ NoWrite
    /\ UNCHANGED <<Config, lastChar, countDraws, svars>>

\* HirKind::Group(ref group)
GroupArm ==
    /\ Running("Group")
    /\ stack' = Append(Pop, Frame(Top.hir.hirs[1]))
    /\ NoWrite
    /\ UNCHANGED <<Config, status, lastChar, countDraws, svars>>

\* HirKind::Concat(ref hirs):
\* `for h in hirs { generate_from_hir(.., h, ..).expect("Fail"); } Ok(())`
ConcatLoop ==
    /\ Running("Concat")
    /\ IF Top.i < Len(Top.hir.hirs)
       THEN /\ stack' = Append(Append(Pop, [Top EXCEPT !.pc = "loop", !.i = Top.i + 1]),
                               Frame(Top.hir.hirs[Top.i + 1]))
            /\ UNCHANGED status
       ELSE Return("ok")
    /\ NoWrite
    /\ UNCHANGED <<Config, lastChar, countDraws, svars>>

\* HirKind::Alternation(ref hirs): hirs.choose(rng).expect("non empty alternations")
AlternationArm ==
    /\ Running("Alternation")
    /\ IF Top.hir.hirs = <<>>
       THEN Unwind
       ELSE \E k \in 1..Len(Top.hir.hirs) :
               /\ stack' = Append(Pop, Frame(Top.hir.hirs[k]))
               /\ UNCHANGED status
    /\ NoWrite
    /\ UNCHANGED <<Config, lastChar, countDraws, svars>>

Next ==
    \/ Generate
    \/ AnchorEndLine
    \/ EmptyAnchorWordBoundary
    \/ LiteralUnicodeArm
    \/ LiteralByteArm
    \/ ClassUnicodeWrite
    \/ ClassUnicodeResample
    \/ ClassBytesArm
    \/ RepetitionEnter
    \/ RepetitionLoop
    \/ GroupArm
    \/ ConcatLoop
    \/ AlternationArm

(***************************************************************************)
(* The patterns the model runs generate on: every leaf kind, every         *)
(* composite over the leaves (every quantifier kind, greedy and lazy,      *)
(* with operands in 0..MaxQuant), and composites nested once more.         *)
(***************************************************************************)
LitA == LiteralUnicode(97)            \* 'a', one byte
LitSpace == LiteralUnicode(32)        \* ' ', not a word character
LitEuro == LiteralUnicode(8364)       \* U+20AC, three bytes
LitEmoji == LiteralUnicode(128512)    \* U+1F600, four bytes
LitByteB == LiteralByte(98)           \* (?-u:b)
ClassAB == ClassUnicode(<< <<97, 98>> >>)                         \* [a-b]
ClassNoNL == ClassUnicode(<< <<9, 9>>, <<11, 12>> >>)             \* two ranges around \n
ClassDigitsAZ == ClassUnicode(<< <<48, 49>>, <<65, 65>>, <<97, 97>> >>)  \* three ranges: biased
ClassSurrogates == ClassUnicode(<< <<55295, 57344>> >>)           \* [\u{D7FF}-\u{E000}]
ClassBytesAB == ClassBytes(<< <<97, 98>> >>)                      \* (?-u:[a-b])

Anchors == {Anchor(a) : a \in {"StartLine", "EndLine", "StartText", "EndText"}}
WordBoundaries ==
    {WordBoundary(wb) : wb \in {"Unicode", "UnicodeNegate", "Ascii", "AsciiNegate"}}
Leaves ==
    {Empty} \cup Anchors \cup WordBoundaries
    \cup {LitA, LitSpace, LitEuro, LitEmoji, LitByteB,
          ClassAB, ClassNoNL, ClassDigitsAZ, ClassBytesAB}

\* the children a Repetition is built over
RepChildren == {LitA, LitEuro, ClassAB, Empty, Anchor("EndLine")}

Quantifiers ==
    {<<"ZeroOrOne", 0, 0>>, <<"ZeroOrMore", 0, 0>>, <<"OneOrMore", 0, 0>>}
    \cup {<<"Exactly", m, 0>> : m \in 0..MaxQuant}
    \cup {<<"AtLeast", m, 0>> : m \in 0..MaxQuant}
    \cup {<<"Bounded", q[1], q[2]>> : q \in {p \in (0..MaxQuant) \X (0..MaxQuant) : p[1] <= p[2]}}

Repetitions(children) ==
    {Repetition(q[1], q[2], q[3], g, h) : q \in Quantifiers, g \in BOOLEAN, h \in children}

Composites ==
    {Group(h) : h \in Leaves}
    \cup {Concat(<<h1, h2>>) : h1 \in Leaves, h2 \in Leaves}
    \cup {Alternation(<<h1, h2>>) : h1 \in Leaves, h2 \in Leaves}
    \cup Repetitions(RepChildren)

\* a class that spans the surrogates, under a Concat and under a Repetition of a Group
DeepSurrogates ==
    {Concat(<<ClassSurrogates, LitA>>),
     Repetition("Bounded", 1, 2, TRUE, Group(Concat(<<LitA, ClassSurrogates>>)))}

\* patterns of the repository's tests and examples, nested deeper
Nested ==
    DeepSurrogates
    \cup
    {ClassSurrogates,
     Repetition("ZeroOrOne", 0, 0, TRUE, ClassSurrogates),
     Concat(<<Anchor("StartText"), LitA, Anchor("EndText")>>),                  \* ^a$
     Concat(<<Anchor("StartLine"), LitA, Anchor("EndLine")>>),                  \* (?m)^a$
     Concat(<<WordBoundary("Unicode"), LitA, WordBoundary("Unicode"), LitSpace, LitByteB>>),
     Concat(<<Repetition("ZeroOrOne", 0, 0, TRUE, LitA),
              Repetition("ZeroOrOne", 0, 0, TRUE, LitByteB)>>),                 \* a?b?
     Alternation(<<Group(Alternation(<<LitA, LitByteB>>)),
                   Group(Alternation(<<LitSpace, LitEuro>>))>>),                \* (a|b)|( |\u{20AC})
     Concat(<<Anchor("StartText"), Group(Concat(<<ClassAB, ClassNoNL>>)),
              Group(Repetition("Bounded", 1, 2, TRUE, ClassDigitsAZ)), Anchor("EndText")>>),
     Repetition("OneOrMore", 0, 0, TRUE, Repetition("ZeroOrOne", 0, 0, FALSE, LitA)),
     Repetition("ZeroOrMore", 0, 0, FALSE, Alternation(<<LitA, LitEuro>>)),
     Group(Repetition("AtLeast", 2, 0, TRUE, Concat(<<LitA, Anchor("EndLine")>>)))}

Patterns == Leaves \cup Composites \cup Nested

\* the sink handed to generate: a Vec, a slice with Cap bytes of room, a sink
\* that fails on its (Fuse + 1)-th write
Sinks ==
    {<<-1, -1>>}
    \cup {<<c, -1>> : c \in 0..MaxCap}
    \cup {<<-1, f>> : f \in 0..MaxFuse}

SampleOff == ranges = <<>> /\ bits = 0 /\ spc = "off" /\ sindex = -1 /\ sresult = -1

\* Generator::new(s, rng, max_repeat), and the sink the caller holds
InitWith(patterns) ==
    /\ hir \in patterns
    /\ max_repeat \in 0..MaxM
    /\ overflow_checks \in BOOLEAN
    /\ stack = <<>>
    /\ status = "idle"
    /\ buffer = <<>>
    /\ offered = <<>>
    /\ \E s \in Sinks : sinkFree = s[1] /\ sinkFuse = s[2]
    /\ sinkFailed = FALSE
    /\ lastChar = NoDraw
    /\ countDraws = 0
    /\ SampleOff

Init == InitWith(Patterns)

Spec == Init /\ [][Next]_vars

(***************************************************************************)
(* What the tests check the output with: String::from_utf8(buffer) and     *)
(* Regex::is_match (an unanchored search).                                 *)
(***************************************************************************)
Byte(bs, i) == IF i <= Len(bs) THEN bs[i] ELSE -1
IsCont(b) == b >= 128 /\ b <= 191

\* length of the well-formed UTF-8 sequence that starts at bs[i], 0 when there is none
Utf8Len(bs, i) ==
    LET b1 == Byte(bs, i)
        b2 == Byte(bs, i + 1)
        b3 == Byte(bs, i + 2)
        b4 == Byte(bs, i + 3)
    IN  IF b1 >= 0 /\ b1 < 128 THEN 1
        ELSE IF b1 >= 194 /\ b1 <= 223 /\ IsCont(b2) THEN 2
        ELSE IF /\ b1 >= 224 /\ b1 <= 239
                /\ IsCont(b2) /\ IsCont(b3)
                /\ (b1 = 224 => b2 >= 160)
                /\ (b1 = 237 => b2 <= 159)
             THEN 3
        ELSE IF /\ b1 >= 240 /\ b1 <= 244
                /\ IsCont(b2) /\ IsCont(b3) /\ IsCont(b4)
                /\ (b1 = 240 => b2 >= 144)
                /\ (b1 = 244 => b2 <= 143)
             THEN 4
        ELSE 0

\* the scalar value of the sequence of length n that starts at bs[i]
Utf8Value(bs, i, n) ==
    CASE n = 1 -> bs[i]
      [] n = 2 -> (bs[i] - 192) * 64 + (bs[i + 1] - 128)
      [] n = 3 -> (bs[i] - 224) * 4096 + (bs[i + 1] - 128) * 64 + (bs[i + 2] - 128)
      [] n = 4 -> (bs[i] - 240) * 262144 + (bs[i + 1] - 128) * 4096
                  + (bs[i + 2] - 128) * 64 + (bs[i + 3] - 128)

RECURSIVE Utf8ValidFrom(_, _)
Utf8ValidFrom(bs, i) ==
    IF i > Len(bs) THEN TRUE
    ELSE Utf8Len(bs, i) > 0 /\ Utf8ValidFrom(bs, i + Utf8Len(bs, i))

\* String::from_utf8(bs).is_ok()
Utf8Valid(bs) == Utf8ValidFrom(bs, 1)

RECURSIVE Utf8CharsFrom(_, _)
Utf8CharsFrom(bs, i) ==
    IF i > Len(bs) \/ Utf8Len(bs, i) = 0 THEN <<>>
    ELSE <<Utf8Value(bs, i, Utf8Len(bs, i))>> \o Utf8CharsFrom(bs, i + Utf8Len(bs, i))

\* the chars of String::from_utf8(bs)
Utf8Chars(bs) == Utf8CharsFrom(bs, 1)

\* \w, for the characters the patterns of the model can write: the ASCII word
\* characters (none of the other characters of the model is a word character)
IsWordChar(c) ==
    \/ c >= 48 /\ c <= 57
    \/ c >= 65 /\ c <= 90
    \/ c = 95
    \/ c >= 97 /\ c <= 122

\* whether a word character stands before / at position i (0-based) of s
WordBefore(s, i) == i > 0 /\ IsWordChar(s[i])
WordAt(s, i) == i < Len(s) /\ IsWordChar(s[i + 1])

\* a zero-width assertion at position i of s
Asserts(h, s, i) ==
    CASE h.kind = "Empty" -> TRUE
      [] h.kind = "Anchor" /\ h.sub = "StartText" -> i = 0
      [] h.kind = "Anchor" /\ h.sub = "EndText" -> i = Len(s)
      [] h.kind = "Anchor" /\ h.sub = "StartLine" -> i = 0 \/ s[i] = 10
      [] h.kind = "Anchor" /\ h.sub = "EndLine" -> i = Len(s) \/ s[i + 1] = 10
      [] h.kind = "WordBoundary" /\ h.sub \in {"Unicode", "Ascii"} ->
            WordBefore(s, i) # WordAt(s, i)
      [] h.kind = "WordBoundary" /\ h.sub \in {"UnicodeNegate", "AsciiNegate"} ->
            WordBefore(s, i) = WordAt(s, i)

InRanges(rs, c) == \E k \in 1..Len(rs) : rs[k][1] <= c /\ c <= rs[k][2]

\* the counts a quantifier admits in a match; an unbounded one never needs
\* more than its minimum plus the length of the text
QuantMatchRange(h, s) ==
    CASE h.sub = "ZeroOrOne" -> <<0, 1>>
      [] h.sub = "ZeroOrMore" -> <<0, Len(s) + 1>>
      [] h.sub = "OneOrMore" -> <<1, Len(s) + 2>>
      [] h.sub = "Exactly" -> <<h.m, h.m>>
      [] h.sub = "AtLeast" -> <<h.m, h.m + Len(s) + 1>>
      [] h.sub = "Bounded" -> <<h.m, h.n>>

RECURSIVE MatchEnds(_, _, _)
RECURSIVE ConcatEnds(_, _, _, _)
RECURSIVE RepeatEnds(_, _, _, _, _, _)

\* the positions where a match of h that starts at position i of s can end
MatchEnds(h, s, i) ==
    CASE h.kind \in {"Empty", "Anchor", "WordBoundary"} ->
            IF Asserts(h, s, i) THEN {i} ELSE {}
      [] h.kind \in {"LiteralUnicode", "LiteralByte"} ->
            IF i < Len(s) /\ s[i + 1] = h.m THEN {i + 1} ELSE {}
      [] h.kind \in {"ClassUnicode", "ClassBytes"} ->
            IF i < Len(s) /\ InRanges(h.ranges, s[i + 1]) THEN {i + 1} ELSE {}
      [] h.kind = "Group" -> MatchEnds(h.hirs[1], s, i)
      [] h.kind = "Concat" -> ConcatEnds(h.hirs, 1, s, {i})
      [] h.kind = "Alternation" ->
            UNION {MatchEnds(h.hirs[k], s, i) : k \in 1..Len(h.hirs)}
      [] h.kind = "Repetition" ->
            RepeatEnds(h.hirs[1], s, {i}, 0, QuantMatchRange(h, s)[1], QuantMatchRange(h, s)[2])

ConcatEnds(hs, k, s, from) ==
    IF k > Len(hs) \/ from = {} THEN from
    ELSE ConcatEnds(hs, k + 1, s, UNION {MatchEnds(hs[k], s, p) : p \in from})

\* the ends of lo..hi matches of h in a row, `from` being the ends of k of them
RepeatEnds(h, s, from, k, lo, hi) ==
    (IF k >= lo THEN from ELSE {})
    \cup (IF k < hi /\ from # {}
          THEN RepeatEnds(h, s, UNION {MatchEnds(h, s, p) : p \in from}, k + 1, lo, hi)
          ELSE {})

\* Regex::new(raw).is_match(&s)
IsMatch(h, s) == \E i \in 0..Len(s) : MatchEnds(h, s, i) # {}

(***************************************************************************)
(* The scheduling of a call: generate runs to completion (some step is     *)
(* always taken while one is possible), and the randomness source is fair: *)
(* a Class::Unicode loop whose class holds a scalar value draws one in the *)
(* end.                                                                    *)
(***************************************************************************)
\* the patterns of the fair behaviours: every node kind, every
\* quantifier over a one-byte literal, the nested patterns but two
LivePatterns == Leaves \cup Repetitions({LitA}) \cup (Nested \ DeepSurrogates)

FairSpec ==
    /\ InitWith(LivePatterns)
    /\ [][Next]_vars
    /\ WF_vars(Next)
    /\ WF_vars(ClassUnicodeWrite)

(***************************************************************************)
(* Definitions the claims are stated with                                  *)
(***************************************************************************)
\* the sink is a Vec: every write is accepted whole
SinkIsVec == sinkFree = -1 /\ sinkFuse = -1

Finished == status \in {"ok", "err", "panic"}

RECURSIVE Copies(_, _)
Copies(bytes, n) == IF n = 0 THEN <<>> ELSE bytes \o Copies(bytes, n - 1)

Max(a, b) == IF a > b THEN a ELSE b

\* the quantifier table of the specification: the minimum of a kind
TableMin(rep) ==
    CASE rep.sub \in {"ZeroOrOne", "ZeroOrMore"} -> 0
      [] rep.sub = "OneOrMore" -> 1
      [] rep.sub \in {"Exactly", "AtLeast", "Bounded"} -> rep.m

\* the quantifier table of the specification: the greedy maximum of a kind under
\* bound M, never below the minimum
TableMax(rep, M) ==
    CASE rep.sub = "ZeroOrOne" -> 1
      [] rep.sub = "ZeroOrMore" -> M
      [] rep.sub = "OneOrMore" -> Max(1, M)
      [] rep.sub = "Exactly" -> rep.m
      [] rep.sub = "AtLeast" -> Max(rep.m, M)
      [] rep.sub = "Bounded" -> rep.n

RECURSIVE HasByteNode(_)
\* the pattern holds a byte literal or a byte class: it is no text pattern
HasByteNode(h) ==
    \/ h.kind \in {"LiteralByte", "ClassBytes"}
    \/ \E k \in 1..Len(h.hirs) : HasByteNode(h.hirs[k])

\* the scalar values of a class
ClassScalars(rs) == {c \in BiasedValues(rs) : c < SurrogateFirst \/ c > SurrogateLast}

(***************************************************************************)
(* C1: whenever generate returns Ok having written to a Vec, the bytes     *)
(* written are text that the pattern itself matches.                       *)
(***************************************************************************)
C1_MatchSoundness ==
    (status = "ok" /\ SinkIsVec)
        => (Utf8Valid(buffer) /\ IsMatch(hir, Utf8Chars(buffer)))

(***************************************************************************)
(* C2: for a bound M >= 1 (the bound 0 is C3's case), the counts a greedy  *)
(* Repetition can resolve to are exactly the interval of the quantifier    *)
(* table, [min, M] for the unbounded kinds: no other outcome, and every    *)
(* count of the interval possible.                                         *)
(***************************************************************************)
C2_GreedyInterval ==
    (/\ Running("Repetition")
     /\ Top.pc = "enter"
     /\ Top.hir.greedy
     /\ max_repeat >= 1)
        => RepetitionCounts(Top.hir, max_repeat, overflow_checks)
             = TableMin(Top.hir)..TableMax(Top.hir, max_repeat)

(***************************************************************************)
(* C3: for a pattern that is one greedy ZeroOrMore or OneOrMore over a     *)
(* one-byte literal and every bound M >= 0, the call completes and the     *)
(* length of the output lies in [lo, M]; with M = 0 a ZeroOrMore writes    *)
(* nothing.                                                                *)
(***************************************************************************)
C3_BoundRespected ==
    (/\ hir.kind = "Repetition"
     /\ hir.sub \in {"ZeroOrMore", "OneOrMore"}
     /\ hir.greedy
     /\ hir.hirs[1] = LitA
     /\ SinkIsVec)
        => /\ status # "panic"
           /\ status = "ok" =>
                 /\ Len(buffer) >= TableMin(hir)
                 /\ Len(buffer) <= TableMax(hir, max_repeat)

(***************************************************************************)
(* C4: for a greedy Range(min, None) whose minimum exceeds the bound       *)
(* (min > M), the call completes normally and the child is emitted exactly *)
(* min times.                                                              *)
(***************************************************************************)
C4_MinAboveBound ==
    (/\ hir.kind = "Repetition"
     /\ hir.sub = "AtLeast"
     /\ hir.greedy
     /\ hir.m > max_repeat
     /\ SinkIsVec)
        => /\ status # "panic"
           /\ (stack # <<>> /\ stack[1].pc = "loop") => stack[1].count = hir.m
           /\ (status = "ok" /\ hir.hirs[1] = LitA) => buffer = Copies(<<97>>, hir.m)

(***************************************************************************)
(* C5: a lazy Repetition of any kind, under any bound M, emits its child   *)
(* exactly the minimum number of times of its kind, and consumes no random *)
(* draw for the count.                                                     *)
(***************************************************************************)
C5_LazyMinimality ==
    (/\ hir.kind = "Repetition"
     /\ ~hir.greedy
     /\ SinkIsVec)
        => /\ status # "panic"
           /\ countDraws = 0
           /\ (stack # <<>> /\ stack[1].pc = "loop") => stack[1].count = TableMin(hir)
           /\ (status = "ok" /\ hir.hirs[1] = LitA)
                 => buffer = Copies(<<97>>, TableMin(hir))

(***************************************************************************)
(* C6: once a write to the sink has failed, generate has returned an error *)
(* to its caller: it has not panicked, whatever node the write was made    *)
(* under.                                                                  *)
(***************************************************************************)
C6_SinkFailureReturned == sinkFailed => status = "err"

C8_OnlyScalarValues ==
    /\ [](/\ (lastChar \in {NoDraw, None} \/ (lastChar >= 0 /\ lastChar <= CharMax))
          /\ ~(lastChar >= SurrogateFirst /\ lastChar <= SurrogateLast)
          /\ (status = "err" => sinkFailed)
          /\ (~HasByteNode(hir) => Utf8Valid(offered)))
    /\ [][/\ (Running("ClassUnicode") /\ offered' # offered)
               => \E c \in ClassScalars(Top.hir.ranges) :
                     offered' = offered \o EncodeUtf8(c)
          /\ (Running("ClassUnicode") /\ lastChar' = None)
               => (/\ offered' = offered
                   /\ buffer' = buffer
                   /\ status' = "running"
                   /\ stack' = stack)]_vars

\* a draw from [\u{D7FF}-\u{E000}] was a surrogate: the loop goes round
C8_Witness ==
    /\ Running("ClassUnicode")
    /\ Top.hir = ClassSurrogates
    /\ lastChar = None
    /\ offered = <<>>

(***************************************************************************)
(* C9: sample_from_ranges returns for every non-empty ordered list of      *)
(* disjoint ranges, the whole domain included; its value lies in the union *)
(* of the ranges; every value of the union is a possible value; with at    *)
(* most 2 ranges the drawn index is the rank of the value in the union (a  *)
(* bijection of [0, total width) onto the union).                          *)
(***************************************************************************)
\* how many values of the ranges rs lie below v
RECURSIVE Rank(_, _, _)
Rank(rs, k, v) ==
    IF k = 0 THEN 0
    ELSE Rank(rs, k - 1, v)
         + (IF v > rs[k][2] THEN (rs[k][2] - rs[k][1]) + 1
            ELSE IF v > rs[k][1] THEN v - rs[k][1] ELSE 0)

C9_SamplerClaim ==
    /\ spc # "panic"
    /\ spc # "start" => SampleOutcomes(ranges, bits, overflow_checks) = BiasedValues(ranges)
    /\ spc = "done" => sresult \in BiasedValues(ranges)
    /\ (spc = "done" /\ Len(ranges) <= 2) => sindex = Rank(ranges, Len(ranges), sresult)

(***************************************************************************)
(* C10: when generate returns Ok, the sink has accepted every byte that    *)
(* was handed to it, in order.                                             *)
(***************************************************************************)
C10_CompleteWrites == status = "ok" => buffer = offered

=============================================================================
